---- MODULE Spec2Model ----
(***************************************************************************)
(* PCI DSS compliance dashboard (src/app/main.py).                         *)
(*                                                                         *)
(* The program is a Streamlit script.  The server process keeps one        *)
(* st.cache_data store per load function; every user interaction (first    *)
(* connect, browser refresh, navigation, a widget change) re-executes the  *)
(* whole script top to bottom against that store.  The state is the four   *)
(* data files, the cache, the script's globals and widget values after the *)
(* latest run, and what that run rendered.                                 *)
(***************************************************************************)
EXTENDS Integers, Sequences, FiniteSets, TLC

VARIABLES
    disk,             \* the four files under DATA_DIR
    cache,            \* st.cache_data store: dataset -> <<>> or <<value>>
    reads,            \* dataset -> number of times its file was opened and read
    writes,           \* number of changes made to the files so far
    requirements,     \* script global (line 85): <<>> unset, <<list>> set
    control_status,   \* script global (line 86)
    findings,         \* script global (line 87)
    trend_data,       \* script global (line 88)
    page,             \* value of the navigation radio (line 95)
    severity_filter,  \* value of the Severity multiselect (line 254)
    status_filter,    \* value of the Status multiselect (line 261)
    req_filter,       \* value of the Requirement multiselect (line 268)
    selected_label,   \* value of the selectbox (line 198): <<>> is None
    out,              \* what the latest script run rendered
    last              \* what happened last: a script run or a file change

vars == <<disk, cache, reads, writes, requirements, control_status, findings,
          trend_data, page, severity_filter, status_filter, req_filter,
          selected_label, out, last>>

-----------------------------------------------------------------------------
(* Bounds of the model *)

MaxReqs == 2
MaxControls == 2
MaxFindings == 3
MaxTrend == 3
MaxEvents == 2
MaxWrites == 2
MaxReads == 2

SeqsUpTo(S, n) == UNION {[1..k -> S] : k \in 0..n}
Range(s) == {s[i] : i \in 1..Len(s)}

-----------------------------------------------------------------------------
(* Program constants *)

DATASETS == <<"requirements", "control_status", "findings", "trend">>
PAGES == <<"Executive Summary", "Requirement Details", "Findings", "Trend Analysis">>
SEVERITIES == <<"critical", "high", "medium", "low">>
STATUSES == <<"open", "remediated">>
STATUS_DEFAULT == <<"open">>
COLUMNS == <<"id", "severity", "status", "requirement_id", "title", "resource_id", "detected_at">>
HEADER == <<"ID", "Severity", "Status", "Requirement", "Title", "Resource", "Detected">>

-----------------------------------------------------------------------------
(* Input data: the records the files may hold *)

R1 == [id |-> "req_1", name |-> "Network Security Controls",
       description |-> "Install and maintain network security controls"]
R1dup == [id |-> "req_1", name |-> "Duplicate Entry",
          description |-> "Second catalog entry with the same id"]
R2 == [id |-> "req_2", name |-> "Secure Configurations",
       description |-> "Apply secure configurations to all system components"]
ReqPool == {R1, R1dup, R2}

K1 == [requirement_id |-> "req_1", status |-> "pass", details |-> "All security groups restricted",
       finding_count |-> 0]
K2 == [requirement_id |-> "req_2", status |-> "fail", details |-> "Default credentials present",
       finding_count |-> 2]
K99 == [requirement_id |-> "req_99", status |-> "fail", details |-> "Orphan control row",
        finding_count |-> 1]
ControlPool == {K1, K2, K99}

F1 == [id |-> "F-001", severity |-> "critical", status |-> "open", requirement_id |-> "req_1",
       title |-> "Open SSH to world", resource_id |-> "sg-0a1", detected_at |-> "2024-01-03T10:00:00Z"]
F2 == [id |-> "F-002", severity |-> "high", status |-> "remediated", requirement_id |-> "req_2",
       title |-> "Default password", resource_id |-> "i-0b2", detected_at |-> "2024-01-04T11:00:00Z"]
F3 == [id |-> "F-003", severity |-> "medium", status |-> "open", requirement_id |-> "req_99",
       title |-> "Unmapped finding", resource_id |-> "s3-c3", detected_at |-> "2024-01-05T12:00:00Z"]
F4 == [id |-> "F-004", severity |-> "low", status |-> "open", requirement_id |-> "req_2",
       title |-> "Verbose banner", resource_id |-> "i-0d4", detected_at |-> "2024-01-06T13:00:00Z"]
FindingPool == {F1, F2, F3}

P1 == [date |-> "2024-01-01", compliance_score |-> 50, passing |-> 3, failing |-> 3]
P5 == [date |-> "2024-01-05", compliance_score |-> 67, passing |-> 4, failing |-> 2]
P5t == [date |-> "2024-01-05T00:00:00", compliance_score |-> 83, passing |-> 5, failing |-> 1]
P16 == [date |-> "2024-01-16", compliance_score |-> 100, passing |-> 6, failing |-> 0]
TrendPool == {P1, P5, P5t, P16}

E5 == [date |-> "2024-01-05", event |-> "S3 encryption enabled"]
E16t == [date |-> "2024-01-16T00:00:00", event |-> "MFA enforced"]
E20 == [date |-> "2024-01-20", event |-> "External audit"]
EventPool == {E5, E16t, E20}

SUMMARY == [compliance_score |-> 50, passing |-> 3, failing |-> 3]

ControlDoc(controls) ==
    [snapshot_date |-> "2024-01-16", summary |-> SUMMARY, controls |-> controls]
TrendDoc(points, events) == [trend_data |-> points, events |-> events]

(* A file: absent, present but unparseable, or present with a parsed document *)
Missing == [exists |-> FALSE, parsed |-> <<>>]
Malformed == [exists |-> TRUE, parsed |-> <<>>]
File(doc) == [exists |-> TRUE, parsed |-> <<doc>>]

-----------------------------------------------------------------------------
(* Data Loader: lines 27-52 *)

IndexOf(d) == CHOOSE i \in 1..Len(DATASETS) : DATASETS[i] = d

(* The value a loader's body returns from a parsed document *)
Extract(d, doc) ==
    CASE d = "requirements" -> doc.requirements
      [] d = "findings" -> doc.findings
      [] OTHER -> doc

(* The body of a load function: open the file, parse it, take the key.    *)
(* open() raises when the file is absent; the parser (or the subscript)    *)
(* raises when the content is malformed.  Nothing is returned on a raise.  *)
DefaultValue(d) ==
    CASE d = "requirements" -> <<>>
      [] d = "control_status" -> ControlDoc(<<>>)
      [] d = "findings" -> <<>>
      [] d = "trend" -> TrendDoc(<<>>, <<>>)

BodySubstitutesDefault(d) ==
    LET f == disk[d] IN
    [raised |-> FALSE, opened |-> f.exists,
     value |-> IF Len(f.parsed) = 0 THEN <<DefaultValue(d)>> ELSE <<Extract(d, f.parsed[1])>>,
     error |-> ""]

Body(d) ==
    LET f == disk[d] IN
    IF ~f.exists
    THEN [raised |-> TRUE, opened |-> FALSE, value |-> <<>>, error |-> "FileNotFoundError"]
    ELSE IF Len(f.parsed) = 0
    THEN [raised |-> TRUE, opened |-> TRUE, value |-> <<>>, error |-> "ParseError"]
    ELSE [raised |-> FALSE, opened |-> TRUE, value |-> <<Extract(d, f.parsed[1])>>, error |-> ""]

(* @st.cache_data around a body without arguments: a stored entry is      *)
(* returned without running the body; otherwise the body runs and a value  *)
(* it returns is stored.  A raise stores nothing.  No ttl, no clear().     *)
cache_data_always_runs(d) ==
    LET b == Body(d) IN
    [raised |-> b.raised, error |-> b.error, value |-> b.value, read |-> b.opened,
     entry |-> b.value]

cache_data(d) ==
    IF Len(cache[d]) > 0
    THEN [raised |-> FALSE, error |-> "", value |-> cache[d], read |-> FALSE, entry |-> cache[d]]
    ELSE LET b == Body(d) IN
         [raised |-> b.raised, error |-> b.error, value |-> b.value, read |-> b.opened,
          entry |-> b.value]

load_requirements == cache_data("requirements")
load_control_status == cache_data("control_status")
load_findings == cache_data("findings")
load_trend_data == cache_data("trend")

Load(d) ==
    CASE d = "requirements" -> load_requirements
      [] d = "control_status" -> load_control_status
      [] d = "findings" -> load_findings
      [] d = "trend" -> load_trend_data

(* Lines 85-88 call the loaders in order; the first raise ends the run.    *)
FirstFail ==
    LET bad == {i \in 1..Len(DATASETS) : Load(DATASETS[i]).raised} IN
    IF bad = {} THEN Len(DATASETS) + 1 ELSE CHOOSE i \in bad : \A j \in bad : i <= j

-----------------------------------------------------------------------------
(* View-model helpers *)

(* for req in requirements: if req["id"] == req_id: return req["name"]    *)
RECURSIVE NameFrom(_, _, _)
NameFrom(req_id, reqs, i) ==
    IF i > Len(reqs) THEN req_id
    ELSE IF reqs[i].id = req_id THEN reqs[i].name
    ELSE NameFrom(req_id, reqs, i + 1)

RECURSIVE NameFromLast(_, _, _)
NameFromLast(req_id, reqs, i) ==
    IF i < 1 THEN req_id
    ELSE IF reqs[i].id = req_id THEN reqs[i].name
    ELSE NameFromLast(req_id, reqs, i - 1)

get_requirement_name_last_match(req_id, reqs) == NameFromLast(req_id, reqs, Len(reqs))

get_requirement_name(req_id, reqs) == NameFrom(req_id, reqs, 1)

(* [x for x in xs if x[key] == v]: the list comprehension, in list order  *)
RECURSIVE Comprehension(_, _)
Comprehension(xs, keep) ==
    IF Len(xs) = 0 THEN <<>>
    ELSE (IF xs[1] \in keep THEN <<xs[1]>> ELSE <<>>) \o Comprehension(Tail(xs), keep)

(* next((x for x in xs if ...), None): <<>> is None *)
FirstOf(xs, keep) ==
    LET hits == Comprehension(xs, keep) IN
    IF Len(hits) = 0 THEN <<>> ELSE <<hits[1]>>

(* r['id'].replace('_', ' ').upper() on the ids of the data *)
IdUpper(id) ==
    CASE id = "req_1" -> "REQ 1"
      [] id = "req_2" -> "REQ 2"
      [] id = "req_99" -> "REQ 99"

(* f"{...} - {r['name']}" : the label of a requirement in the selectbox *)
LabelOf(r) == <<IdUpper(r.id), " - ", r.name>>

(* pd.to_datetime on the date strings of the data: days since 2023-12-31 *)
to_datetime(s) ==
    CASE s = "2024-01-01" -> 1
      [] s = "2024-01-05" -> 5
      [] s = "2024-01-05T00:00:00" -> 5
      [] s = "2024-01-16" -> 16
      [] s = "2024-01-16T00:00:00" -> 16
      [] s = "2024-01-20" -> 20

(* What a run renders; every field empty until its widget is drawn *)
Blank ==
    [status |-> "none", error |-> "", page |-> "", sidebar |-> <<>>,
     cards |-> <<>>, open_findings |-> 0, critical_findings |-> 0,
     options |-> <<>>, detail |-> <<>>,
     filtered |-> <<>>, export |-> FALSE, csv |-> <<>>,
     dates |-> <<>>, scores |-> <<>>, passing |-> <<>>, failing |-> <<>>,
     annotations |-> <<>>]

(* Lines 103-105 *)
Sidebar(cs) == <<cs.snapshot_date, cs.summary.passing, cs.summary.failing>>

(* Lines 175-176, 317-318: the frame of the trend points, dates converted *)
TrendDates(td) == [i \in 1..Len(td.trend_data) |-> to_datetime(td.trend_data[i].date)]
TrendColumn(td, col) == [i \in 1..Len(td.trend_data) |-> td.trend_data[i][col]]

(* Lines 108-190 *)
ExecutiveSummary(reqs, cs, fs, td) ==
    [Blank EXCEPT
       !.cards = [i \in 1..Len(cs.controls) |->
                    [requirement_id |-> cs.controls[i].requirement_id,
                     name |-> get_requirement_name(cs.controls[i].requirement_id, reqs),
                     status |-> cs.controls[i].status,
                     details |-> cs.controls[i].details,
                     finding_count |-> cs.controls[i].finding_count,
                     column |-> (i - 1) % 3]],
       !.open_findings = Len(Comprehension(fs, {f \in Range(fs) : f.status = "open"})),
       !.critical_findings =
           Len(Comprehension(fs, {f \in Range(fs) : f.status = "open" /\ f.severity = "critical"})),
       !.dates = TrendDates(td),
       !.scores = TrendColumn(td, "compliance_score")]

-----------------------------------------------------------------------------
(* Requirement Details page: lines 192-244 *)

(* Keys of the dict comprehension of line 197, in first-insertion order *)
RECURSIVE Keys(_)
Keys(reqs) ==
    IF Len(reqs) = 0 THEN <<>>
    ELSE LET front == Keys(SubSeq(reqs, 1, Len(reqs) - 1))
             l == LabelOf(reqs[Len(reqs)])
         IN IF l \in Range(front) THEN front ELSE Append(front, l)

(* req_options[label]: a later requirement with the same label overwrites *)
req_options(reqs, label) ==
    LET hits == {i \in 1..Len(reqs) : LabelOf(reqs[i]) = label}
        k == CHOOSE i \in hits : \A j \in hits : j <= i
    IN reqs[k].id

(* st.selectbox: the kept choice while it is still an option, else the     *)
(* first option, and None (<<>>) when there are no options                  *)
selectbox(options, widget) ==
    IF Len(options) = 0 THEN <<>>
    ELSE IF Len(widget) > 0 /\ widget[1] \in Range(options) THEN widget
    ELSE <<options[1]>>

RequirementDetails(reqs, cs, fs, sel) ==
    IF Len(sel) = 0
    THEN \* req_options[None] raises KeyError (line 199)
         [Blank EXCEPT !.options = Keys(reqs), !.error = "KeyError"]
    ELSE
    LET selected_req == req_options(reqs, sel[1])
        control == FirstOf(cs.controls,
                           {c \in Range(cs.controls) : c.requirement_id = selected_req})
        req_info == FirstOf(reqs, {r \in Range(reqs) : r.id = selected_req})
        req_findings == Comprehension(fs, {f \in Range(fs) : f.requirement_id = selected_req})
    IN IF Len(control) > 0 /\ Len(req_info) > 0
       THEN [Blank EXCEPT
               !.options = Keys(reqs),
               !.detail = <<[requirement |-> req_info[1], control |-> control[1],
                             findings |-> req_findings]>>]
       ELSE [Blank EXCEPT !.options = Keys(reqs)]

-----------------------------------------------------------------------------
(* Findings page: lines 246-311 *)

(* st.multiselect: the default until the user has changed the selection *)
multiselect(options, default, widget) ==
    IF Len(widget) = 0 THEN Range(default) ELSE widget[1] \cap Range(options)

RequirementIds(reqs) == [i \in 1..Len(reqs) |-> reqs[i].id]

(* Lines 275-280 *)
FilteredAnyMatch(fs, sev, st, rq) ==
    Comprehension(fs, {f \in Range(fs) :
        f.severity \in sev \/ f.status \in st \/ f.requirement_id \in rq})

Filtered(fs, sev, st, rq) ==
    Comprehension(fs, {f \in Range(fs) :
        f.severity \in sev /\ f.status \in st /\ f.requirement_id \in rq})

(* Lines 287-289, 303: the frame's columns, renamed, one line per row *)
ToCsvSwapped(rows) ==
    <<HEADER>> \o [i \in 1..Len(rows) |->
        <<rows[i].id, rows[i].status, rows[i].severity, rows[i].requirement_id,
          rows[i].title, rows[i].resource_id, rows[i].detected_at>>]

ToCsv(rows) ==
    <<HEADER>> \o [i \in 1..Len(rows) |-> [c \in 1..Len(COLUMNS) |-> rows[i][COLUMNS[c]]]]

FindingsPage(fs, sev, st, rq) ==
    LET filtered == Filtered(fs, sev, st, rq) IN
    IF Len(filtered) > 0
    THEN [Blank EXCEPT !.filtered = filtered, !.export = TRUE, !.csv = ToCsv(filtered)]
    ELSE [Blank EXCEPT !.filtered = filtered]

-----------------------------------------------------------------------------
(* Trend Analysis page: lines 313-397 *)

(* Lines 335-350: one pass over the events, in list order *)
RECURSIVE AnnotationsByDateString(_, _)
AnnotationsByDateString(td, events) ==
    IF Len(events) = 0 THEN <<>>
    ELSE LET hits == {i \in 1..Len(td.trend_data) : td.trend_data[i].date = events[1].date}
         IN (IF hits # {}
             THEN <<[x |-> to_datetime(events[1].date),
                     y |-> td.trend_data[CHOOSE i \in hits : \A j \in hits : i <= j].compliance_score,
                     text |-> events[1].event]>>
             ELSE <<>>) \o AnnotationsByDateString(td, Tail(events))

RECURSIVE Annotations(_, _)
Annotations(td, events) ==
    IF Len(events) = 0 THEN <<>>
    ELSE LET event_date == to_datetime(events[1].date)
             dates == TrendDates(td)
             score_at_date == Comprehension(
                 [i \in 1..Len(dates) |-> <<i, td.trend_data[i].compliance_score>>],
                 {<<i, td.trend_data[i].compliance_score>> : i \in {j \in 1..Len(dates) : dates[j] = event_date}})
         IN (IF Len(score_at_date) > 0
             THEN <<[x |-> event_date, y |-> score_at_date[1][2], text |-> events[1].event]>>
             ELSE <<>>) \o Annotations(td, Tail(events))

TrendAnalysis(td) ==
    [Blank EXCEPT
       !.dates = TrendDates(td),
       !.scores = TrendColumn(td, "compliance_score"),
       !.passing = TrendColumn(td, "passing"),
       !.failing = TrendColumn(td, "failing"),
       !.annotations = Annotations(td, td.events)]

-----------------------------------------------------------------------------
(* One execution of the script, top to bottom, with the widget values the  *)
(* session holds (<<>>: the widget has no value yet and takes its default) *)

RunScript(pg, sevW, stW, rqW, selW) ==
    LET ff == FirstFail
        reached(d) == IndexOf(d) <= ff
        returned(d) == IF IndexOf(d) < ff THEN Load(d).value ELSE <<>>
    IN
    /\ cache' = [d \in Range(DATASETS) |-> IF reached(d) THEN Load(d).entry ELSE cache[d]]
    /\ reads' = [d \in Range(DATASETS) |->
                   IF reached(d) /\ Load(d).read THEN reads[d] + 1 ELSE reads[d]]
    /\ requirements' = returned("requirements")
    /\ control_status' = returned("control_status")
    /\ findings' = returned("findings")
    /\ trend_data' = returned("trend")
    /\ IF ff <= Len(DATASETS)
       THEN \* an exception at lines 85-88: nothing below them executes
            /\ page' = ""
            /\ severity_filter' = {}
            /\ status_filter' = {}
            /\ req_filter' = {}
            /\ selected_label' = <<>>
            /\ out' = [Blank EXCEPT !.status = "error", !.error = Load(DATASETS[ff]).error]
       ELSE LET reqs == Load("requirements").value[1]
                cs == Load("control_status").value[1]
                fs == Load("findings").value[1]
                td == Load("trend").value[1]
                sev == IF pg = "Findings"
                       THEN multiselect(SEVERITIES, SEVERITIES, sevW) ELSE {}
                st == IF pg = "Findings"
                      THEN multiselect(STATUSES, STATUS_DEFAULT, stW) ELSE {}
                rq == IF pg = "Findings"
                      THEN multiselect(RequirementIds(reqs), RequirementIds(reqs), rqW) ELSE {}
                sel == IF pg = "Requirement Details"
                       THEN selectbox(Keys(reqs), selW) ELSE <<>>
                view == CASE pg = "Executive Summary" -> ExecutiveSummary(reqs, cs, fs, td)
                          [] pg = "Requirement Details" -> RequirementDetails(reqs, cs, fs, sel)
                          [] pg = "Findings" -> FindingsPage(fs, sev, st, rq)
                          [] pg = "Trend Analysis" -> TrendAnalysis(td)
            IN /\ page' = pg
               /\ severity_filter' = sev
               /\ status_filter' = st
               /\ req_filter' = rq
               /\ selected_label' = sel
               /\ out' = [view EXCEPT !.status = IF view.error = "" THEN "ok" ELSE "error",
                                      !.page = pg,
                                      !.sidebar = Sidebar(cs)]

-----------------------------------------------------------------------------
(* Operations *)

(* First connect or browser refresh: the script runs with the session's    *)
(* widget values; a widget that was not drawn by the latest run has none.  *)
Rerun ==
    /\ \A d \in Range(DATASETS) : reads[d] < MaxReads
    /\ RunScript(IF page = "" THEN PAGES[1] ELSE page,
                 IF out.page = "Findings" THEN <<severity_filter>> ELSE <<>>,
                 IF out.page = "Findings" THEN <<status_filter>> ELSE <<>>,
                 IF out.page = "Findings" THEN <<req_filter>> ELSE <<>>,
                 IF out.page = "Requirement Details" THEN selected_label ELSE <<>>)
    /\ last' = "script"
    /\ UNCHANGED <<disk, writes>>

(* The sidebar radio (line 95): the widgets of the page left are dropped *)
Navigate(p) ==
    /\ Len(out.sidebar) > 0
    /\ p # page
    /\ RunScript(p, <<>>, <<>>, <<>>, <<>>)
    /\ last' = "script"
    /\ UNCHANGED <<disk, writes>>

Flip(S, x) == IF x \in S THEN S \ {x} ELSE S \cup {x}

ToggleSeverity(s) ==
    /\ out.page = "Findings"
    /\ RunScript("Findings", <<Flip(severity_filter, s)>>, <<status_filter>>, <<req_filter>>, <<>>)
    /\ last' = "script"
    /\ UNCHANGED <<disk, writes>>

ToggleStatus(s) ==
    /\ out.page = "Findings"
    /\ RunScript("Findings", <<severity_filter>>, <<Flip(status_filter, s)>>, <<req_filter>>, <<>>)
    /\ last' = "script"
    /\ UNCHANGED <<disk, writes>>

ToggleRequirement(r) ==
    /\ out.page = "Findings"
    /\ r \in Range(RequirementIds(requirements[1]))
    /\ RunScript("Findings", <<severity_filter>>, <<status_filter>>, <<Flip(req_filter, r)>>, <<>>)
    /\ last' = "script"
    /\ UNCHANGED <<disk, writes>>

SelectRequirement(l) ==
    /\ out.page = "Requirement Details"
    /\ l \in Range(out.options)
    /\ <<l>> # selected_label
    /\ RunScript("Requirement Details", <<>>, <<>>, <<>>, <<l>>)
    /\ last' = "script"
    /\ UNCHANGED <<disk, writes>>

(* The operator replaces, removes or corrupts a data file on disk *)
DocA(d) ==
    CASE d = "requirements" -> [requirements |-> <<R1, R2>>]
      [] d = "control_status" -> ControlDoc(<<K1, K2>>)
      [] d = "findings" -> [findings |-> <<F1, F2>>]
      [] d = "trend" -> TrendDoc(<<P1, P5>>, <<E5>>)

DocB(d) ==
    CASE d = "requirements" -> [requirements |-> <<R2>>]
      [] d = "control_status" -> ControlDoc(<<K2>>)
      [] d = "findings" -> [findings |-> <<F4>>]
      [] d = "trend" -> TrendDoc(<<P16>>, <<>>)

FileChoices(d) == {Missing, Malformed, File(DocA(d)), File(DocB(d))}

WriteFile(d, c) ==
    /\ writes < MaxWrites
    /\ c \in FileChoices(d)
    /\ c # disk[d]
    /\ disk' = [disk EXCEPT ![d] = c]
    /\ writes' = writes + 1
    /\ last' = "write"
    /\ UNCHANGED <<cache, reads, requirements, control_status, findings, trend_data,
                   page, severity_filter, status_filter, req_filter, selected_label, out>>

-----------------------------------------------------------------------------
(* Specifications *)

(* The process has started and no session has connected yet *)
Fresh ==
    /\ cache = [d \in Range(DATASETS) |-> <<>>]
    /\ reads = [d \in Range(DATASETS) |-> 0]
    /\ writes = 0
    /\ requirements = <<>>
    /\ control_status = <<>>
    /\ findings = <<>>
    /\ trend_data = <<>>
    /\ page = ""
    /\ severity_filter = {}
    /\ status_filter = {}
    /\ req_filter = {}
    /\ selected_label = <<>>
    /\ out = Blank
    /\ last = "init"

Disk(reqs, controls, fs, points, events) ==
    [d \in Range(DATASETS) |->
        CASE d = "requirements" -> File([requirements |-> reqs])
          [] d = "control_status" -> File(ControlDoc(controls))
          [] d = "findings" -> File([findings |-> fs])
          [] d = "trend" -> File(TrendDoc(points, events))]

(* The files come and go while the process runs *)
Init ==
    /\ disk \in [Range(DATASETS) -> {Missing, Malformed}]
                \cup {[d \in Range(DATASETS) |-> File(DocA(d))]}
    /\ Fresh

Next ==
    \/ Rerun
    \/ \E p \in Range(PAGES) : Navigate(p)
    \/ \E d \in Range(DATASETS) : \E c \in FileChoices(d) : WriteFile(d, c)

Spec == Init /\ [][Next]_vars

(* The Findings page over every findings list *)
InitFindings ==
    /\ \E fs \in SeqsUpTo(FindingPool, MaxFindings) :
          disk = Disk(<<R1, R2>>, <<K1, K2>>, fs, <<P1, P5>>, <<E5>>)
    /\ Fresh

NextFindings ==
    \/ Rerun
    \/ \E p \in Range(PAGES) : Navigate(p)
    \/ \E s \in Range(SEVERITIES) : ToggleSeverity(s)
    \/ \E s \in Range(STATUSES) : ToggleStatus(s)
    \/ \E r \in {"req_1", "req_2"} : ToggleRequirement(r)

SpecFindings == InitFindings /\ [][NextFindings]_vars

(* The Executive Summary and Requirement Details pages over every catalog  *)
(* and every list of control rows                                          *)
InitDetails ==
    /\ \E reqs \in SeqsUpTo(ReqPool, MaxReqs), controls \in SeqsUpTo(ControlPool, MaxControls),
          fs \in {<<F4, F1, F2, F3>>, <<F1, F1>>} :
          disk = Disk(reqs, controls, fs, <<P1, P5>>, <<E5>>)
    /\ Fresh

NextDetails ==
    \/ Rerun
    \/ \E p \in Range(PAGES) : Navigate(p)
    \/ \E r \in ReqPool : SelectRequirement(LabelOf(r))

SpecDetails == InitDetails /\ [][NextDetails]_vars

(* The Trend Analysis page over every list of trend points and of events *)
InitTrend ==
    /\ \E points \in SeqsUpTo(TrendPool, MaxTrend), events \in SeqsUpTo(EventPool, MaxEvents) :
          disk = Disk(<<R1, R2>>, <<K1, K2>>, <<F1, F2>>, points, events)
    /\ Fresh

NextTrend ==
    \/ Rerun
    \/ \E p \in Range(PAGES) : Navigate(p)

SpecTrend == InitTrend /\ [][NextTrend]_vars

-----------------------------------------------------------------------------
(* Properties of the Data Loader, under Spec *)

Global(d) ==
    CASE d = "requirements" -> requirements
      [] d = "control_status" -> control_status
      [] d = "findings" -> findings
      [] d = "trend" -> trend_data

Cached(d) == Len(cache[d]) > 0
Unreadable(f) == ~f.exists \/ Len(f.parsed) = 0
NothingRendered(o) ==
    /\ o.page = ""
    /\ Len(o.sidebar) = 0
    /\ Len(o.cards) = 0
    /\ Len(o.options) = 0
    /\ Len(o.detail) = 0
    /\ Len(o.filtered) = 0
    /\ ~o.export
    /\ Len(o.dates) = 0
    /\ Len(o.annotations) = 0

C4_UncachedLoadFails ==
    [][writes' = writes =>
          \A d \in Range(DATASETS) :
             ~Cached(d) /\ Unreadable(disk[d]) =>
                /\ out'.status = "error"
                /\ out'.error \in {"FileNotFoundError", "ParseError"}
                /\ NothingRendered(out')
                /\ ~Cached(d)'
                /\ Len(Global(d)') = 0]_vars

(* C4 witness: the first run loaded the catalog and the control status and *)
(* stopped at an unparseable findings file.                                *)
C4_Witness ==
    /\ last = "script"
    /\ Cached("requirements")
    /\ Cached("control_status")
    /\ disk["findings"] = Malformed
    /\ ~Cached("findings")
    /\ findings = <<>>
    /\ out.status = "error"
    /\ out.error = "ParseError"
    /\ reads["findings"] = 1

(* C4, as stated: whenever the file of a dataset is missing or unparseable *)
(* a run of the script ends in an error with nothing rendered.             *)
C4_AnyBadFileFails ==
    [][writes' = writes =>
          \A d \in Range(DATASETS) :
             Unreadable(disk[d]) =>
                /\ out'.status = "error"
                /\ NothingRendered(out')
                /\ Len(Global(d)') = 0]_vars

-----------------------------------------------------------------------------
(* Properties of the Findings page, under SpecFindings *)

(* The positions of the loaded findings that pass the current selections *)
Passing(fs) ==
    {i \in 1..Len(fs) : /\ fs[i].severity \in severity_filter
                        /\ fs[i].status \in status_filter
                        /\ fs[i].requirement_id \in req_filter}
Rank(S, i) == Cardinality({j \in S : j <= i})
RowOf(f) == <<f.id, f.severity, f.status, f.requirement_id, f.title, f.resource_id, f.detected_at>>

(* C1: the filtered list holds exactly the findings whose severity, status *)
(* and requirement_id are each in their selection, in the order of the     *)
(* findings list; an empty selection gives an empty list.                  *)
C1_FilterContract ==
    out.page = "Findings" =>
       LET fs == findings[1]
           good == Passing(fs)
       IN /\ Len(out.filtered) = Cardinality(good)
          /\ \A i \in good : out.filtered[Rank(good, i)] = fs[i]
          /\ (severity_filter = {} \/ status_filter = {} \/ req_filter = {}
                => Len(out.filtered) = 0)

(* C1 witness: after a change of the severity selection the middle one of  *)
(* three findings is left out and the other two keep their order.          *)
C1_Witness ==
    /\ out.page = "Findings"
    /\ severity_filter # Range(SEVERITIES)
    /\ Len(findings[1]) = 3
    /\ Len(out.filtered) = 2
    /\ out.filtered[1] = findings[1][1]
    /\ out.filtered[2] = findings[1][3]
    /\ out.filtered[1] # out.filtered[2]

(* C2: with every option of the three selectors selected, the filtered     *)
(* list is the loaded findings list.                                       *)
C2_FullUniverseIsIdentity ==
    (/\ out.page = "Findings"
     /\ severity_filter = Range(SEVERITIES)
     /\ status_filter = Range(STATUSES)
     /\ req_filter = Range(RequirementIds(requirements[1])))
    => out.filtered = findings[1]

(* C7, as amended: when the filtered list is not empty the export is the   *)
(* header row followed by one row per filtered finding, in filtered order, *)
(* with the seven fields in column order, and every row is a finding that  *)
(* passes the current selections; when the filtered list is empty there is *)
(* no export.                                                              *)
C7_ExportOfNonEmptyFilter ==
    out.page = "Findings" =>
       IF Len(out.filtered) > 0
       THEN /\ out.export
            /\ Len(out.csv) = Len(out.filtered) + 1
            /\ out.csv[1] = <<"ID", "Severity", "Status", "Requirement", "Title", "Resource", "Detected">>
            /\ \A k \in 1..Len(out.filtered) : out.csv[k + 1] = RowOf(out.filtered[k])
            /\ \A k \in 2..Len(out.csv) :
                  \E i \in Passing(findings[1]) : out.csv[k] = RowOf(findings[1][i])
       ELSE ~out.export /\ Len(out.csv) = 0

(* C7 witness: after 'remediated' was added to the status selection, three *)
(* findings of different status are exported as four lines.                *)
C7_Witness ==
    /\ out.page = "Findings"
    /\ status_filter = Range(STATUSES)
    /\ req_filter = {"req_2", "req_1"}
    /\ Len(out.filtered) = 3
    /\ Len(out.csv) = 4
    /\ out.filtered[1].status # out.filtered[2].status
    /\ out.export

(* C7, as stated: the export always exists and is the header row followed  *)
(* by one row per filtered finding, N + 1 lines for N filtered findings.   *)
C7_ExportAlways ==
    out.page = "Findings" =>
       /\ out.export
       /\ Len(out.csv) = Len(out.filtered) + 1
       /\ out.csv[1] = <<"ID", "Severity", "Status", "Requirement", "Title", "Resource", "Detected">>
       /\ \A k \in 1..Len(out.filtered) : out.csv[k + 1] = RowOf(out.filtered[k])

(* C8: in the default filter state the filtered list is the open findings, *)
(* in the order of the findings list.                                      *)
C8_DefaultShowsOpenFindings ==
    (/\ out.page = "Findings"
     /\ severity_filter = Range(SEVERITIES)
     /\ status_filter = {"open"}
     /\ req_filter = Range(RequirementIds(requirements[1])))
    => LET fs == findings[1]
           open == {i \in 1..Len(fs) : fs[i].status = "open"}
       IN /\ Len(out.filtered) = Cardinality(open)
          /\ \A i \in open : out.filtered[Rank(open, i)] = fs[i]

-----------------------------------------------------------------------------
(* Properties of the Executive Summary and Requirement Details pages,      *)
(* under SpecDetails                                                       *)

(* C10: the name on a card is the name of the first catalog entry with the *)
(* control's requirement id, and the id itself when the catalog has none;  *)
(* it is always a string, and the catalog stays as loaded.                 *)
C10_NameLookup ==
    out.page = "Executive Summary" =>
       LET reqs == requirements[1]
           controls == control_status[1].controls
       IN /\ Len(out.cards) = Len(controls)
          /\ \A i \in 1..Len(controls) :
                LET id == controls[i].requirement_id
                    hits == {j \in 1..Len(reqs) : reqs[j].id = id}
                IN /\ hits # {} =>
                         \E j \in hits : (\A k \in hits : j <= k)
                                         /\ out.cards[i].name = reqs[j].name
                   /\ hits = {} => out.cards[i].name = id
                   /\ out.cards[i].name \in STRING
          /\ requirements = cache["requirements"]
          /\ reqs = disk["requirements"].parsed[1].requirements

(* C10 witness: the catalog holds req_1 twice and the cards show the first *)
(* entry's name for req_1 and the raw id for req_99.                       *)
C10_Witness ==
    /\ out.page = "Executive Summary"
    /\ requirements = <<(<<R1, R1dup>>)>>
    /\ Len(out.cards) = 2
    /\ out.cards[1].name = "Network Security Controls"
    /\ out.cards[2].name = "req_99"

(* C5: the Requirement Details page never ends in an error, and it shows   *)
(* the detail record of the selected requirement (the requirement, its     *)
(* control row and its findings in order) exactly when the catalog has the *)
(* requirement and the snapshot has its control row, and nothing otherwise.*)
C5_DetailOrPlaceholder ==
    out.page = "Requirement Details" =>
       /\ out.status = "ok"
       /\ LET reqs == requirements[1]
              controls == control_status[1].controls
              fs == findings[1]
              id == req_options(reqs, selected_label[1])
              rhits == {j \in 1..Len(reqs) : reqs[j].id = id}
              chits == {j \in 1..Len(controls) : controls[j].requirement_id = id}
              fhits == {j \in 1..Len(fs) : fs[j].requirement_id = id}
          IN IF rhits # {} /\ chits # {}
             THEN /\ Len(out.detail) = 1
                  /\ out.detail[1].requirement.id = id
                  /\ out.detail[1].control.requirement_id = id
                  /\ Len(out.detail[1].findings) = Cardinality(fhits)
                  /\ \A j \in fhits : out.detail[1].findings[Rank(fhits, j)] = fs[j]
             ELSE Len(out.detail) = 0

-----------------------------------------------------------------------------
(* Properties of the Trend Analysis page, under SpecTrend *)

C9_SeriesSortedByDate ==
    out.page = "Trend Analysis" =>
       /\ \A i, j \in 1..Len(out.dates) : i < j => out.dates[i] <= out.dates[j]
       /\ Len(out.passing) = Len(out.dates)
       /\ Len(out.failing) = Len(out.dates)

====
